---- MODULE Spec2Model ----
(***************************************************************************)
(* Model of nh2/grid-puzzle.                                               *)
(*                                                                         *)
(*   grid-renderer-scad.py : makeGrid (piece decomposition, bordering      *)
(*                           graph, colouring, SCAD geometry) and main     *)
(*   editor.py             : the GTK grid editor (click, keypress, Save,   *)
(*                           Load)                                         *)
(*                                                                         *)
(* Python lists are sequences; list index i is position i + 1.  Tiles and  *)
(* corners are pairs <<x, y>> with the zero-based coordinates of the code. *)
(* Piece IDs are zero-based: piece i is pieces[i + 1].  A Python exception *)
(* ends the run: pc = "raised" and error names the exception class.        *)
(***************************************************************************)
EXTENDS Integers, Sequences, FiniteSets, TLC

VARIABLES
    pc,                        \* position in makeGrid / main
    error,                     \* "none", or the class of the exception raised
    field_file,                \* which field file makeGrid was called with
    horiz, vert,               \* g['horiz'], g['vert'] as loaded
    NUM_TILES_X, NUM_TILES_Y,
    pieces,                    \* list of pieces, each a list of tiles
    tile_to_piece_id_map,
    bordering_pieces_map,
    piece_color_map,
    num_used_colors,
    piece_tile_objects,
    piece_gap_objects,
    piece_gap_corner_objects,
    piece_objects,
    puzzle_grid,               \* main: Grid returned for the upper field
    lower_frame_grid,          \* main: Grid returned for the lower field
    best_lower_piece_for_upper_piece,
    all_objects,               \* main: the solids joined into puzzle.scad
    gaps_horiz, gaps_vert,     \* editor: (lane, offset) -> bool
    buttons_disabled,          \* editor: gap buttons carrying the CSS class "disabled"
    input_state,               \* editor: the gap the keyboard input is at
    save_file,                 \* editor: content of field.json
    at_save,                   \* editor history: the gaps when Save was last pressed
    last_handler               \* editor history: the handler that ran last

makeGridVars == <<horiz, vert, NUM_TILES_X, NUM_TILES_Y, pieces,
                  tile_to_piece_id_map, bordering_pieces_map, piece_color_map,
                  num_used_colors, piece_tile_objects, piece_gap_objects,
                  piece_gap_corner_objects, piece_objects>>

mainVars == <<puzzle_grid, lower_frame_grid, best_lower_piece_for_upper_piece,
              all_objects>>

editorVars == <<gaps_horiz, gaps_vert, buttons_disabled, input_state,
                save_file, at_save, last_handler>>

vars == <<pc, error, field_file, makeGridVars, mainVars, editorVars>>

(***************************************************************************)
(* Bounds of the model                                                     *)
(***************************************************************************)
\* Well-formed field files: at most this many gaps (horizontal + vertical).
MaxGaps == 12
\* Arbitrary field files: at most this many rows per array, booleans per row.
MaxRaggedRows == 2
MaxRaggedLen == 2
\* The two field files of main: well-formed with open boundary gaps, of at
\* most this many tiles, or one list of at most this many booleans per array.
MainMaxTiles == 4
MainRaggedLen == 2
\* Well-formed field files with open boundary gaps: at most this many tiles.
MaxOpenTiles == 6

(***************************************************************************)
(* Python helpers                                                          *)
(***************************************************************************)
None == -1

Min(a, b) == IF a <= b THEN a ELSE b

SetMin(S) == CHOOSE m \in S : \A n \in S : m <= n

SetMax(S) == CHOOSE m \in S : \A n \in S : m >= n

Range(s) == {s[i] : i \in 1..Len(s)}

\* list[i]: valid for -len <= i < len, negative indices count from the end
ValidIndex(list, i) == -Len(list) <= i /\ i < Len(list)

Get(list, i) == IF i >= 0 THEN list[i + 1] ELSE list[Len(list) + i + 1]

\* arr[i][j] raises IndexError unless both indices are valid
CanRead(arr, i, j) == ValidIndex(arr, i) /\ ValidIndex(Get(arr, i), j)

Read(arr, i, j) == Get(Get(arr, i), j)

\* range(n) x range(m) in the order of "for x in range(n): for y in range(m)"
RangeProduct(n, m) ==
    IF n <= 0 \/ m <= 0 THEN <<>>
    ELSE [k \in 1..(n * m) |-> <<(k - 1) \div m, (k - 1) % m>>]

(***************************************************************************)
(* Field files                                                             *)
(***************************************************************************)
BoolArrays(rows, len) == [1..rows -> [1..len -> BOOLEAN]]

\* Files as the editor's format describes them: nx x ny tiles, nx, ny >= 1.
WellFormedGrids ==
    UNION {[horiz : BoolArrays(d[2], d[1] + 1), vert : BoolArrays(d[1], d[2] + 1)] :
             d \in {e \in (1..MaxGaps) \X (1..MaxGaps) :
                       2 * e[1] * e[2] + e[1] + e[2] <= MaxGaps}}

RaggedArrays ==
    UNION {[1..rows -> UNION {[1..len -> BOOLEAN] : len \in 0..MaxRaggedLen}] :
             rows \in 0..MaxRaggedRows}

\* Any JSON file whose two keys hold lists of lists of booleans.
AnyGrids == [horiz : RaggedArrays, vert : RaggedArrays]

\* rows lists of len booleans, the first and the last of each list true.
OpenEndedArrays(rows, len) ==
    {[r \in 1..rows |-> [j \in 1..len |-> IF j = 1 \/ j = len THEN TRUE ELSE inner[r][j - 1]]] :
        inner \in [1..rows -> [1..(len - 2) -> BOOLEAN]]}

\* Well-formed files whose boundary gaps are all open: the pieces, their
\* borders and colours depend on the inner gaps alone.
OpenBoundaryGrids ==
    UNION {[horiz : OpenEndedArrays(d[2], d[1] + 1), vert : OpenEndedArrays(d[1], d[2] + 1)] :
             d \in {e \in (1..MaxOpenTiles) \X (1..MaxOpenTiles) : e[1] * e[2] <= MaxOpenTiles}}

\* A single list of at most MainRaggedLen booleans under a key.
MainRaggedArrays == {<<row>> : row \in UNION {[1..len -> BOOLEAN] : len \in 0..MainRaggedLen}}

\* The field files main is run on.
MainGrids ==
    UNION {[horiz : OpenEndedArrays(d[2], d[1] + 1), vert : OpenEndedArrays(d[1], d[2] + 1)] :
             d \in {e \in (1..MainMaxTiles) \X (1..MainMaxTiles) : e[1] * e[2] <= MainMaxTiles}}
      \cup [horiz : MainRaggedArrays, vert : MainRaggedArrays]

(***************************************************************************)
(* makeGrid: load and tile counts (lines 63-72)                            *)
(***************************************************************************)
tile_limit_debug == 10000

LoadGrid(files) ==
    /\ pc = "makeGrid"
    /\ \E g \in files :
         /\ horiz' = g.horiz
         /\ vert' = g.vert
         /\ IF Len(g.horiz) = 0 \/ Len(g.vert) = 0
            THEN /\ pc' = "raised"
                 /\ error' = "IndexError"
                 /\ UNCHANGED <<NUM_TILES_X, NUM_TILES_Y>>
            ELSE /\ NUM_TILES_X' = Min(tile_limit_debug, Len(Get(g.horiz, 0)) - 1)
                 /\ NUM_TILES_Y' = Min(tile_limit_debug, Len(Get(g.vert, 0)) - 1)
                 /\ pc' = "floodfill"
                 /\ UNCHANGED error
    /\ UNCHANGED <<field_file, pieces, tile_to_piece_id_map, bordering_pieces_map,
                   piece_color_map, num_used_colors, piece_tile_objects,
                   piece_gap_objects, piece_gap_corner_objects, piece_objects,
                   mainVars, editorVars>>

(***************************************************************************)
(* makeGrid: neighbours (lines 76-95)                                      *)
(***************************************************************************)
\* Mutant: the bordering scan sees only neighbours behind a closed gap.
direct_neighbor_tiles_closed_only(tile) ==
    LET x == tile[1]
        y == tile[2]
    IN  (IF x > 0               /\ ~Read(horiz, y, x)
            THEN << <<x - 1, y>> >> ELSE <<>>)
     \o (IF x < NUM_TILES_X - 1 /\ ~Read(horiz, y, x + 1)
            THEN << <<x + 1, y>> >> ELSE <<>>)
     \o (IF y > 0               /\ ~Read(vert, x, y)
            THEN << <<x, y - 1>> >> ELSE <<>>)
     \o (IF y < NUM_TILES_Y - 1 /\ ~Read(vert, x, y + 1)
            THEN << <<x, y + 1>> >> ELSE <<>>)

direct_neighbor_tiles(tile) ==
    LET x == tile[1]
        y == tile[2]
    IN  (IF x > 0               THEN << <<x - 1, y>> >> ELSE <<>>)
     \o (IF x < NUM_TILES_X - 1 THEN << <<x + 1, y>> >> ELSE <<>>)
     \o (IF y > 0               THEN << <<x, y - 1>> >> ELSE <<>>)
     \o (IF y < NUM_TILES_Y - 1 THEN << <<x, y + 1>> >> ELSE <<>>)

\* Mutant: the right neighbour is decided by the gap on the tile's left,
\* horiz[y][x] in place of horiz[y][x+1].
connected_direct_neighbor_tiles_off_by_one(tile) ==
    LET x == tile[1]
        y == tile[2]
    IN  [ok |-> TRUE,
         val |->
            (IF x > 0               /\ ~Read(horiz, y, x)
                THEN << <<x - 1, y>> >> ELSE <<>>)
         \o (IF x < NUM_TILES_X - 1 /\ ~Read(horiz, y, x)
                THEN << <<x + 1, y>> >> ELSE <<>>)
         \o (IF y > 0               /\ ~Read(vert, x, y)
                THEN << <<x, y - 1>> >> ELSE <<>>)
         \o (IF y < NUM_TILES_Y - 1 /\ ~Read(vert, x, y + 1)
                THEN << <<x, y + 1>> >> ELSE <<>>)]

\* [ok |-> FALSE] stands for the IndexError of a read outside horiz / vert.
connected_direct_neighbor_tiles(tile) ==
    LET x == tile[1]
        y == tile[2]
        left  == x > 0
        right == x < NUM_TILES_X - 1
        up    == y > 0
        down  == y < NUM_TILES_Y - 1
        ok == /\ left  => CanRead(horiz, y, x)
              /\ right => CanRead(horiz, y, x + 1)
              /\ up    => CanRead(vert, x, y)
              /\ down  => CanRead(vert, x, y + 1)
    IN  IF ~ok THEN [ok |-> FALSE, val |-> <<>>]
        ELSE [ok |-> TRUE,
              val |->
                 (IF left  /\ ~Read(horiz, y, x)     THEN << <<x - 1, y>> >> ELSE <<>>)
              \o (IF right /\ ~Read(horiz, y, x + 1) THEN << <<x + 1, y>> >> ELSE <<>>)
              \o (IF up    /\ ~Read(vert, x, y)      THEN << <<x, y - 1>> >> ELSE <<>>)
              \o (IF down  /\ ~Read(vert, x, y + 1)  THEN << <<x, y + 1>> >> ELSE <<>>)]

(***************************************************************************)
(* makeGrid: flood fill (lines 122-149)                                    *)
(***************************************************************************)
\* The while loop of floodfill_piece_from.  visited is the closure variable
\* visited_tiles, threaded through explicitly.
RECURSIVE floodfill_loop(_, _, _)
floodfill_loop(stack, piece, visited) ==
    IF Len(stack) = 0
    THEN [ok |-> TRUE, piece |-> piece, visited |-> visited]
    ELSE LET tile == stack[Len(stack)]
             popped == SubSeq(stack, 1, Len(stack) - 1)
             visited2 == visited \cup {tile}
             neighbors == connected_direct_neighbor_tiles(tile)
         IN  IF ~neighbors.ok
             THEN [ok |-> FALSE, piece |-> piece, visited |-> visited2]
             ELSE floodfill_loop(
                      popped \o SelectSeq(neighbors.val, LAMBDA n : n \notin visited2),
                      Append(piece, tile),
                      visited2)

floodfill_piece_from(start_tile, visited) ==
    floodfill_loop(<<start_tile>>, <<>>, visited)

\* Mutant: the scan floods from every tile, visited or not.
starts_new_piece_always(tile, visited) == TRUE

\* line 139: "if tile not in visited_tiles"
starts_new_piece(tile, visited) == tile \notin visited

\* The loop of lines 136-141 from the k-th tile of the scan on.
RECURSIVE determine_pieces(_, _, _, _)
determine_pieces(tiles, k, ps, visited) ==
    IF k > Len(tiles) THEN [ok |-> TRUE, pieces |-> ps]
    ELSE IF ~starts_new_piece(tiles[k], visited)
         THEN determine_pieces(tiles, k + 1, ps, visited)
         ELSE LET r == floodfill_piece_from(tiles[k], visited)
              IN  IF ~r.ok THEN [ok |-> FALSE, pieces |-> ps]
                  ELSE determine_pieces(tiles, k + 1, Append(ps, r.piece), r.visited)

\* The dict comprehension of lines 145-149: a later piece overwrites an earlier one.
make_tile_to_piece_id_map(ps) ==
    [tile \in UNION {Range(ps[i]) : i \in 1..Len(ps)} |->
        SetMax({i - 1 : i \in {j \in 1..Len(ps) : tile \in Range(ps[j])}})]

Floodfill ==
    /\ pc = "floodfill"
    /\ LET r == determine_pieces(RangeProduct(NUM_TILES_X, NUM_TILES_Y), 1, <<>>, {})
       IN  IF ~r.ok
           THEN /\ pc' = "raised"
                /\ error' = "IndexError"
                /\ UNCHANGED <<pieces, tile_to_piece_id_map>>
           ELSE /\ pieces' = r.pieces
                /\ tile_to_piece_id_map' = make_tile_to_piece_id_map(r.pieces)
                /\ pc' = "bordering"
                /\ UNCHANGED error
    /\ UNCHANGED <<field_file, horiz, vert, NUM_TILES_X, NUM_TILES_Y,
                   bordering_pieces_map, piece_color_map, num_used_colors,
                   piece_tile_objects, piece_gap_objects, piece_gap_corner_objects,
                   piece_objects, mainVars, editorVars>>

(***************************************************************************)
(* makeGrid: bordering pieces (lines 151-161)                              *)
(***************************************************************************)
PieceIds == 0..(Len(pieces) - 1)

\* Both "add" calls of the loop body, over every tile and direct neighbour.
make_bordering_pieces_map ==
    LET tiles == Range(RangeProduct(NUM_TILES_X, NUM_TILES_Y))
        found == UNION {{<<tile_to_piece_id_map[t], tile_to_piece_id_map[n]>> :
                           n \in Range(direct_neighbor_tiles(t))} : t \in tiles}
        edges == {e \in found : e[2] /= e[1]}
    IN  [piece_id \in PieceIds |->
            {e[2] : e \in {f \in edges : f[1] = piece_id}}
              \cup {e[1] : e \in {f \in edges : f[2] = piece_id}}]

Bordering ==
    /\ pc = "bordering"
    /\ bordering_pieces_map' = make_bordering_pieces_map
    /\ pc' = "coloring"
    /\ UNCHANGED <<error, field_file, horiz, vert, NUM_TILES_X, NUM_TILES_Y, pieces,
                   tile_to_piece_id_map, piece_color_map, num_used_colors,
                   piece_tile_objects, piece_gap_objects, piece_gap_corner_objects,
                   piece_objects, mainVars, editorVars>>

(***************************************************************************)
(* makeGrid: colouring (lines 170-189)                                     *)
(***************************************************************************)
\* piece_color_map.get(b)
color_get(color_map, b) == IF b \in DOMAIN color_map THEN color_map[b] ELSE None

\* Mutant: the inner loop runs from the newest colour down (last fit).
existing_colors_free_last(bordering_colors, num_used) ==
    LET free == {c \in 0..(num_used - 1) : c \notin bordering_colors}
    IN  {c \in free : \A d \in free : d <= c}

\* Mutant: "if c in bordering_colors" in place of "if c not in bordering_colors".
existing_colors_free_inverted(bordering_colors, num_used) ==
    {c \in 0..(num_used - 1) : c \in bordering_colors}

\* lines 182-186: the colours of range(num_used) the inner loop may stop at
existing_colors_free(bordering_colors, num_used) ==
    {c \in 0..(num_used - 1) : c \notin bordering_colors}

\* The loop of lines 179-189 from piece_id on.
RECURSIVE color_pieces(_, _, _)
color_pieces(piece_id, color_map, num_used) ==
    IF piece_id >= Len(pieces) THEN [map |-> color_map, num_used_colors |-> num_used]
    ELSE LET bordering_colors ==
                 {color_get(color_map, b) : b \in bordering_pieces_map[piece_id]}
             free == existing_colors_free(bordering_colors, num_used)
         IN  IF free /= {}
             THEN color_pieces(piece_id + 1,
                               (piece_id :> SetMin(free)) @@ color_map, num_used)
             ELSE color_pieces(piece_id + 1,
                               (piece_id :> num_used) @@ color_map, num_used + 1)

Coloring ==
    /\ pc = "coloring"
    /\ LET r == color_pieces(0, <<>>, 0)
       IN  /\ piece_color_map' = r.map
           /\ num_used_colors' = r.num_used_colors
    /\ pc' = "tiles"
    /\ UNCHANGED <<error, field_file, horiz, vert, NUM_TILES_X, NUM_TILES_Y, pieces,
                   tile_to_piece_id_map, bordering_pieces_map,
                   piece_tile_objects, piece_gap_objects, piece_gap_corner_objects,
                   piece_objects, mainVars, editorVars>>

(***************************************************************************)
(* makeGrid: tile cuboids (lines 193-221)                                  *)
(* A cube is recorded by the grid position its translation is computed     *)
(* from; a colour by its index (rainbow_stop_rgb decides nothing).         *)
(***************************************************************************)
piece_color(piece_id) == piece_color_map[piece_id]

tile_piece_color_object(tile) ==
    [tile |-> tile, color |-> piece_color(tile_to_piece_id_map[tile])]

TileObjects ==
    /\ pc = "tiles"
    /\ piece_tile_objects' =
           [i \in 1..Len(pieces) |->
               [k \in 1..Len(pieces[i]) |-> tile_piece_color_object(pieces[i][k])]]
    /\ pc' = "gaps"
    /\ UNCHANGED <<error, field_file, horiz, vert, NUM_TILES_X, NUM_TILES_Y, pieces,
                   tile_to_piece_id_map, bordering_pieces_map, piece_color_map,
                   num_used_colors, piece_gap_objects, piece_gap_corner_objects,
                   piece_objects, mainVars, editorVars>>

(***************************************************************************)
(* makeGrid: gap and corner attribution (lines 229-246)                    *)
(* [ok |-> FALSE] stands for the KeyError of tile_to_piece_id_map[tile].   *)
(***************************************************************************)
lookup_piece_id(tile) ==
    IF tile \in DOMAIN tile_to_piece_id_map
    THEN [ok |-> TRUE, val |-> tile_to_piece_id_map[tile]]
    ELSE [ok |-> FALSE, val |-> None]

horiz_gap_tile(x, y) == <<IF x < NUM_TILES_X - 1 THEN x ELSE x - 1, y>>

vert_gap_tile(x, y) == <<x, IF y < NUM_TILES_Y - 1 THEN y ELSE y - 1>>

gap_corner_tile(x, y) ==
    <<IF x < NUM_TILES_X - 1 THEN x ELSE x - 1,
      IF y < NUM_TILES_Y - 1 THEN y ELSE y - 1>>

piece_id_of_horiz_gap(x, y) == lookup_piece_id(horiz_gap_tile(x, y))

piece_id_of_vert_gap(x, y) == lookup_piece_id(vert_gap_tile(x, y))

piece_id_of_gap_corner(x, y) == lookup_piece_id(gap_corner_tile(x, y))

(***************************************************************************)
(* makeGrid: closed gaps (lines 248-267)                                   *)
(***************************************************************************)
\* enumerate(arr) x enumerate(lane): the cells <<lane, offset>> in loop order
RECURSIVE enumerate_cells(_, _)
enumerate_cells(arr, lane) ==
    IF lane >= Len(arr) THEN <<>>
    ELSE [k \in 1..Len(Get(arr, lane)) |-> <<lane, k - 1>>]
           \o enumerate_cells(arr, lane + 1)

\* line 254 / 262: the break cuts the rest of a lane; line 255 / 263: "if not
\* gap_active".  lane_limit and offset_limit are the limits on lane and offset.
closed_cells(arr, lane_limit, offset_limit) ==
    SelectSeq(enumerate_cells(arr, 0),
              LAMBDA c : /\ ~(c[2] >= offset_limit \/ c[1] >= lane_limit)
                         /\ ~Read(arr, c[1], c[2]))

\* The gaps the two loops render, in loop order.
rendered_gaps ==
    LET h == closed_cells(horiz, tile_limit_debug, tile_limit_debug + 1)
        v == closed_cells(vert, tile_limit_debug, tile_limit_debug + 1)
    IN  [k \in 1..Len(h) |-> [dir |-> "h", x |-> h[k][2], y |-> h[k][1]]]
     \o [k \in 1..Len(v) |-> [dir |-> "v", x |-> v[k][1], y |-> v[k][2]]]

piece_id_of_gap(gap) ==
    IF gap.dir = "h" THEN piece_id_of_horiz_gap(gap.x, gap.y)
    ELSE piece_id_of_vert_gap(gap.x, gap.y)

\* The appends of lines 259 and 267 from the k-th rendered gap on.
RECURSIVE add_gap_objects(_, _, _)
add_gap_objects(gaps, k, objects) ==
    IF k > Len(gaps) THEN [ok |-> TRUE, objects |-> objects]
    ELSE LET id == piece_id_of_gap(gaps[k])
         IN  IF ~id.ok THEN [ok |-> FALSE, objects |-> objects]
             ELSE add_gap_objects(gaps, k + 1,
                                  [objects EXCEPT ![id.val] = Append(@, gaps[k])])

GapObjects ==
    /\ pc = "gaps"
    /\ LET r == add_gap_objects(rendered_gaps, 1, [i \in PieceIds |-> <<>>])
       IN  IF ~r.ok
           THEN /\ pc' = "raised"
                /\ error' = "KeyError"
                /\ UNCHANGED piece_gap_objects
           ELSE /\ piece_gap_objects' = r.objects
                /\ pc' = "corners"
                /\ UNCHANGED error
    /\ UNCHANGED <<field_file, horiz, vert, NUM_TILES_X, NUM_TILES_Y, pieces,
                   tile_to_piece_id_map, bordering_pieces_map, piece_color_map,
                   num_used_colors, piece_tile_objects, piece_gap_corner_objects,
                   piece_objects, mainVars, editorVars>>

(***************************************************************************)
(* makeGrid: corner fillers (lines 268-282)                                *)
(***************************************************************************)
\* Mutant: all() in place of any().
any_adjacent_gap_active_all(x, y) ==
    [ok |-> TRUE,
     val |-> /\ (y /= 0           /\ Read(horiz, y - 1, x))
             /\ (y /= NUM_TILES_Y /\ Read(horiz, y, x))
             /\ (x /= 0           /\ Read(vert, x - 1, y))
             /\ (x /= NUM_TILES_X /\ Read(vert, x, y))]

\* Mutant: the gap on the right of the corner is not looked at.
any_adjacent_gap_active_no_right(x, y) ==
    [ok |-> TRUE,
     val |-> \/ (y /= 0           /\ Read(horiz, y - 1, x))
             \/ (y /= NUM_TILES_Y /\ Read(horiz, y, x))
             \/ (x /= 0           /\ Read(vert, x - 1, y))]

\* [ok |-> FALSE]: one of the four reads is outside horiz / vert (IndexError)
any_adjacent_gap_active(x, y) ==
    LET above == y /= 0
        below == y /= NUM_TILES_Y
        left  == x /= 0
        right == x /= NUM_TILES_X
        ok == /\ above => CanRead(horiz, y - 1, x)
              /\ below => CanRead(horiz, y, x)
              /\ left  => CanRead(vert, x - 1, y)
              /\ right => CanRead(vert, x, y)
    IN  IF ~ok THEN [ok |-> FALSE, val |-> FALSE]
        ELSE [ok |-> TRUE,
              val |-> \/ (above /\ Read(horiz, y - 1, x))
                      \/ (below /\ Read(horiz, y, x))
                      \/ (left  /\ Read(vert, x - 1, y))
                      \/ (right /\ Read(vert, x, y))]

\* The loop of lines 270-282 from the k-th corner on.
RECURSIVE add_gap_corner_objects(_, _, _)
add_gap_corner_objects(corners, k, objects) ==
    IF k > Len(corners) THEN [err |-> "none", objects |-> objects]
    ELSE LET x == corners[k][1]
             y == corners[k][2]
             active == any_adjacent_gap_active(x, y)
             id == piece_id_of_gap_corner(x, y)
         IN  IF ~active.ok THEN [err |-> "IndexError", objects |-> objects]
             ELSE IF active.val THEN add_gap_corner_objects(corners, k + 1, objects)
             ELSE IF ~id.ok THEN [err |-> "KeyError", objects |-> objects]
             ELSE add_gap_corner_objects(
                      corners, k + 1,
                      [objects EXCEPT ![id.val] = Append(@, [corner |-> <<x, y>>])])

GapCornerObjects ==
    /\ pc = "corners"
    /\ LET r == add_gap_corner_objects(
                    RangeProduct(NUM_TILES_X + 1, NUM_TILES_Y + 1), 1,
                    [i \in PieceIds |-> <<>>])
       IN  IF r.err /= "none"
           THEN /\ pc' = "raised"
                /\ error' = r.err
                /\ UNCHANGED piece_gap_corner_objects
           ELSE /\ piece_gap_corner_objects' = r.objects
                /\ pc' = "assemble"
                /\ UNCHANGED error
    /\ UNCHANGED <<field_file, horiz, vert, NUM_TILES_X, NUM_TILES_Y, pieces,
                   tile_to_piece_id_map, bordering_pieces_map, piece_color_map,
                   num_used_colors, piece_tile_objects, piece_gap_objects,
                   piece_objects, mainVars, editorVars>>

(***************************************************************************)
(* makeGrid: piece objects and return (lines 284-301)                      *)
(***************************************************************************)
PieceObjects ==
    /\ pc = "assemble"
    /\ piece_objects' =
           [i \in 1..Len(pieces) |->
               [color   |-> piece_color(i - 1),
                tiles   |-> piece_tile_objects[i],
                gaps    |-> piece_gap_objects[i - 1],
                corners |-> piece_gap_corner_objects[i - 1]]]
    /\ pc' = "returned"
    /\ UNCHANGED <<error, field_file, horiz, vert, NUM_TILES_X, NUM_TILES_Y, pieces,
                   tile_to_piece_id_map, bordering_pieces_map, piece_color_map,
                   num_used_colors, piece_tile_objects, piece_gap_objects,
                   piece_gap_corner_objects, mainVars, editorVars>>

(***************************************************************************)
(* main (lines 308-418), SEPARATE_LAYER_OBJECTS = False, EXPLODE = False   *)
(***************************************************************************)
\* The locals of a makeGrid call before its first statement.
MakeGridLocalsFresh ==
    /\ horiz' = <<>>
    /\ vert' = <<>>
    /\ NUM_TILES_X' = 0
    /\ NUM_TILES_Y' = 0
    /\ pieces' = <<>>
    /\ tile_to_piece_id_map' = <<>>
    /\ bordering_pieces_map' = <<>>
    /\ piece_color_map' = <<>>
    /\ num_used_colors' = 0
    /\ piece_tile_objects' = <<>>
    /\ piece_gap_objects' = <<>>
    /\ piece_gap_corner_objects' = <<>>
    /\ piece_objects' = <<>>

\* The Grid makeGrid returns (lines 296-301).
ReturnedGrid ==
    [piece_objects |-> piece_objects,
     tile_to_piece_id_map |-> tile_to_piece_id_map,
     num_tiles_x |-> NUM_TILES_X,
     num_tiles_y |-> NUM_TILES_Y]

\* line 312: the call of makeGrid for the puzzle field
MainCallUpper ==
    /\ pc = "main"
    /\ field_file' = "upper"
    /\ pc' = "makeGrid"
    /\ UNCHANGED <<error, makeGridVars, mainVars, editorVars>>

\* lines 312-319: the puzzle grid is returned; "Empty puzzle objects", or the
\* call of makeGrid for the lower frame field
MainUpperReturned ==
    /\ pc = "returned"
    /\ field_file = "upper"
    /\ puzzle_grid' = ReturnedGrid
    /\ IF Len(piece_objects) = 0
       THEN /\ pc' = "raised"
            /\ error' = "Exception"
            /\ UNCHANGED <<field_file, makeGridVars>>
       ELSE /\ pc' = "makeGrid"
            /\ field_file' = "lower"
            /\ MakeGridLocalsFresh
            /\ UNCHANGED error
    /\ UNCHANGED <<lower_frame_grid, best_lower_piece_for_upper_piece, all_objects,
                   editorVars>>

\* line 319: the lower frame grid is returned
MainLowerReturned ==
    /\ pc = "returned"
    /\ field_file = "lower"
    /\ lower_frame_grid' = ReturnedGrid
    /\ pc' = "match"
    /\ MakeGridLocalsFresh
    /\ UNCHANGED <<error, field_file, puzzle_grid, best_lower_piece_for_upper_piece,
                   all_objects, editorVars>>

\* lines 346-353
outermost_tiles(nx, ny) ==
       [x \in 1..nx |-> <<x - 1, 0>>]
    \o [x \in 1..nx |-> <<x - 1, ny - 1>>]
    \o [y \in 1..ny |-> <<0, y - 1>>]
    \o [y \in 1..ny |-> <<nx - 1, y - 1>>]

\* A dict is its keys in insertion order and its values.
EmptyDict == [keys |-> <<>>, val |-> <<>>]

DictHas(d, key) == \E k \in 1..Len(d.keys) : d.keys[k] = key

DictPut(d, key, value) ==
    [keys |-> IF DictHas(d, key) THEN d.keys ELSE Append(d.keys, key),
     val |-> (key :> value) @@ d.val]

\* lines 356-359 from the k-th outermost tile on; [ok |-> FALSE] is the
\* KeyError of puzzle_grid.tile_to_piece_id_map[tile]
RECURSIVE upper_frame_pieces_with_tiles(_, _, _)
upper_frame_pieces_with_tiles(tiles, k, d) ==
    IF k > Len(tiles) THEN [ok |-> TRUE, dict |-> d]
    ELSE IF tiles[k] \notin DOMAIN puzzle_grid.tile_to_piece_id_map
         THEN [ok |-> FALSE, dict |-> d]
         ELSE LET upper_piece_id == puzzle_grid.tile_to_piece_id_map[tiles[k]]
                  so_far == IF DictHas(d, upper_piece_id) THEN d.val[upper_piece_id]
                            ELSE <<>>
              IN  upper_frame_pieces_with_tiles(
                      tiles, k + 1, DictPut(d, upper_piece_id, Append(so_far, tiles[k])))

\* lines 364-368 from the k-th tile of the upper piece on
RECURSIVE lower_frame_piece_overlap_counter(_, _, _)
lower_frame_piece_overlap_counter(tiles, k, d) ==
    IF k > Len(tiles) THEN d
    ELSE IF tiles[k] \notin DOMAIN lower_frame_grid.tile_to_piece_id_map
         THEN lower_frame_piece_overlap_counter(tiles, k + 1, d)
         ELSE LET lower_piece_id == lower_frame_grid.tile_to_piece_id_map[tiles[k]]
                  so_far == IF DictHas(d, lower_piece_id) THEN d.val[lower_piece_id]
                            ELSE 0
              IN  lower_frame_piece_overlap_counter(
                      tiles, k + 1, DictPut(d, lower_piece_id, so_far + 1))

\* Mutant: an empty dict yields piece 0 in place of the ValueError.
dict_key_with_max_value_default(d) ==
    IF Len(d.keys) = 0 THEN [ok |-> TRUE, val |-> 0]
    ELSE LET greatest == SetMax({d.val[d.keys[k]] : k \in 1..Len(d.keys)})
             first == SetMin({k \in 1..Len(d.keys) : d.val[d.keys[k]] = greatest})
         IN  [ok |-> TRUE, val |-> d.keys[first]]

\* max(d, key=d.get) (lines 304-305): the first key, in the order of the
\* dict, that has the greatest value; ValueError for an empty dict
dict_key_with_max_value(d) ==
    IF Len(d.keys) = 0 THEN [ok |-> FALSE, val |-> None]
    ELSE LET greatest == SetMax({d.val[d.keys[k]] : k \in 1..Len(d.keys)})
             first == SetMin({k \in 1..Len(d.keys) : d.val[d.keys[k]] = greatest})
         IN  [ok |-> TRUE, val |-> d.keys[first]]

\* lines 362-370 from the k-th upper frame piece on
RECURSIVE best_lower_pieces(_, _, _)
best_lower_pieces(upper, k, best) ==
    IF k > Len(upper.keys) THEN [ok |-> TRUE, dict |-> best]
    ELSE LET upper_piece_id == upper.keys[k]
             counter == lower_frame_piece_overlap_counter(
                            upper.val[upper_piece_id], 1, EmptyDict)
             best_lower_piece_id == dict_key_with_max_value(counter)
         IN  IF ~best_lower_piece_id.ok THEN [ok |-> FALSE, dict |-> best]
             ELSE best_lower_pieces(
                      upper, k + 1, DictPut(best, upper_piece_id, best_lower_piece_id.val))

\* lines 346-370: frame matching
MainMatch ==
    /\ pc = "match"
    /\ LET upper == upper_frame_pieces_with_tiles(
                        outermost_tiles(puzzle_grid.num_tiles_x, puzzle_grid.num_tiles_y),
                        1, EmptyDict)
           best == best_lower_pieces(upper.dict, 1, EmptyDict)
       IN  IF ~upper.ok
           THEN /\ pc' = "raised"
                /\ error' = "KeyError"
                /\ UNCHANGED best_lower_piece_for_upper_piece
           ELSE IF ~best.ok
           THEN /\ pc' = "raised"
                /\ error' = "ValueError"
                /\ best_lower_piece_for_upper_piece' = best.dict
           ELSE /\ pc' = "compose"
                /\ best_lower_piece_for_upper_piece' = best.dict
                /\ UNCHANGED error
    /\ UNCHANGED <<field_file, makeGridVars, puzzle_grid, lower_frame_grid,
                   all_objects, editorVars>>

\* lines 376-407.  A solid is recorded by the pieces it is made of:
\* translate_to_lower puts the lower piece on the layer "lower".
MainCompose ==
    /\ pc = "compose"
    /\ LET best == best_lower_piece_for_upper_piece
           upper_ids == [i \in 1..Len(puzzle_grid.piece_objects) |-> i - 1]
           lower_ids == [i \in 1..Len(lower_frame_grid.piece_objects) |-> i - 1]
           chosen == {best.val[best.keys[k]] : k \in 1..Len(best.keys)}
           puzzle_non_frame == SelectSeq(upper_ids, LAMBDA i : ~DictHas(best, i))
           lower_non_circumference == SelectSeq(lower_ids, LAMBDA i : i \notin chosen)
       IN  all_objects' =
                  [k \in 1..Len(puzzle_non_frame) |->
                      [upper |-> puzzle_non_frame[k], lower |-> None]]
               \o [k \in 1..Len(best.keys) |->
                      [upper |-> best.keys[k], lower |-> best.val[best.keys[k]]]]
               \o [k \in 1..Len(lower_non_circumference) |->
                      [upper |-> None, lower |-> lower_non_circumference[k]]]
    /\ pc' = "render"
    /\ UNCHANGED <<error, field_file, makeGridVars, puzzle_grid, lower_frame_grid,
                   best_lower_piece_for_upper_piece, editorVars>>

\* lines 412-418: puzzle.scad is written
MainRender ==
    /\ pc = "render"
    /\ pc' = "done"
    /\ UNCHANGED <<error, field_file, makeGridVars, mainVars, editorVars>>

(***************************************************************************)
(* editor.py: GridWindow                                                   *)
(***************************************************************************)
\* Number of tiles of the editor's field (56 x 57 in the code, lines 57-58).
SIZE_X == 2
SIZE_Y == 1

Gap(direction, lane, offset) ==
    [direction |-> direction, lane |-> lane, offset |-> offset]

\* The keys of gaps_horiz / gaps_vert (lines 140-147, 158-165).
HorizKeys == (0..(SIZE_Y - 1)) \X (0..SIZE_X)

VertKeys == (0..(SIZE_X - 1)) \X (0..SIZE_Y)

GapButtons ==
    {Gap("h", k[1], k[2]) : k \in HorizKeys} \cup {Gap("v", k[1], k[2]) : k \in VertKeys}

\* set_gap and update_button_style (lines 98-110), for the list "updates" of
\* <<gap, gap_active>> calls in order: the last call for a gap decides.
RECURSIVE set_gaps(_, _, _, _, _)
set_gaps(updates, k, h, v, disabled) ==
    IF k > Len(updates) THEN [horiz |-> h, vert |-> v, disabled |-> disabled]
    ELSE LET gap == updates[k][1]
             gap_active == updates[k][2]
             key == <<gap.lane, gap.offset>>
             style == IF gap_active THEN disabled \ {gap} ELSE disabled \cup {gap}
         IN  IF gap.direction = "v"
             THEN set_gaps(updates, k + 1, h, [v EXCEPT ![key] = gap_active], style)
             ELSE set_gaps(updates, k + 1, [h EXCEPT ![key] = gap_active], v, style)

SetGaps(updates) ==
    LET r == set_gaps(updates, 1, gaps_horiz, gaps_vert, buttons_disabled)
    IN  /\ gaps_horiz' = r.horiz
        /\ gaps_vert' = r.vert
        /\ buttons_disabled' = r.disabled

\* toggle_gap (lines 112-114)
toggled(gap) ==
    IF gap.direction = "v" THEN ~gaps_vert[<<gap.lane, gap.offset>>]
    ELSE ~gaps_horiz[<<gap.lane, gap.offset>>]

\* on_click of a gap button (lines 116-120)
OnGapClick ==
    /\ pc = "editor"
    /\ \E gap \in GapButtons :
         /\ SetGaps(<< <<gap, toggled(gap)>> >>)
         /\ input_state' = gap
    /\ last_handler' = "click"
    /\ UNCHANGED <<pc, error, field_file, makeGridVars, mainVars, save_file, at_save>>

\* on_keypress with a digit key (lines 122-137)
OnKeypress ==
    /\ pc = "editor"
    /\ \E n \in 1..9 :
         LET gap == input_state
             size == IF gap.direction = "h" THEN SIZE_X ELSE SIZE_Y
             target_gap(i) == Gap(gap.direction, gap.lane, Min(size - 1, gap.offset + 1 + i))
             end_gap == Gap(gap.direction, gap.lane, Min(size - 1, gap.offset + n))
         IN  /\ SetGaps([i \in 1..(n - 1) |-> <<target_gap(i - 1), FALSE>>]
                          \o << <<end_gap, TRUE>> >>)
             /\ input_state' = end_gap
    /\ last_handler' = "keypress"
    /\ UNCHANGED <<pc, error, field_file, makeGridVars, mainVars, save_file, at_save>>

\* gaps_to_bool_array (lines 176-183)
gaps_to_bool_array(gaps_state_dict, num_lanes, num_offsets) ==
    [lane \in 1..num_lanes |->
        [offset \in 1..num_offsets |-> gaps_state_dict[<<lane - 1, offset - 1>>]]]

\* on_save_click (lines 175-190).  The file is the JSON document written.
OnSaveClick ==
    /\ pc = "editor"
    /\ save_file' = [exists |-> TRUE,
                     horiz |-> gaps_to_bool_array(gaps_horiz, SIZE_Y, SIZE_X),
                     vert |-> gaps_to_bool_array(gaps_vert, SIZE_X, SIZE_Y)]
    /\ at_save' = [taken |-> TRUE, horiz |-> gaps_horiz, vert |-> gaps_vert]
    /\ last_handler' = "save"
    /\ UNCHANGED <<pc, error, field_file, makeGridVars, mainVars, gaps_horiz,
                   gaps_vert, buttons_disabled, input_state>>

\* The set_gap calls of the loops of lines 200-206 for one key of the file.
load_updates(bools, direction) ==
    LET cells == enumerate_cells(bools, 0)
    IN  [k \in 1..Len(cells) |->
            <<Gap(direction, cells[k][1], cells[k][2]),
              Read(bools, cells[k][1], cells[k][2])>>]

\* on_load_click (lines 196-207); open() raises when there is no file yet.
OnLoadClick ==
    /\ pc = "editor"
    /\ IF save_file.exists
       THEN SetGaps(load_updates(save_file.horiz, "h") \o load_updates(save_file.vert, "v"))
       ELSE UNCHANGED <<gaps_horiz, gaps_vert, buttons_disabled>>
    /\ last_handler' = "load"
    /\ UNCHANGED <<pc, error, field_file, makeGridVars, mainVars, input_state,
                   save_file, at_save>>

(***************************************************************************)
(* Specifications                                                          *)
(***************************************************************************)
EditorIdle ==
    /\ gaps_horiz = <<>>
    /\ gaps_vert = <<>>
    /\ buttons_disabled = {}
    /\ input_state = <<>>
    /\ save_file = <<>>
    /\ at_save = <<>>
    /\ last_handler = "none"

MakeGridEntry ==
    /\ error = "none"
    /\ horiz = <<>>
    /\ vert = <<>>
    /\ NUM_TILES_X = 0
    /\ NUM_TILES_Y = 0
    /\ pieces = <<>>
    /\ tile_to_piece_id_map = <<>>
    /\ bordering_pieces_map = <<>>
    /\ piece_color_map = <<>>
    /\ num_used_colors = 0
    /\ piece_tile_objects = <<>>
    /\ piece_gap_objects = <<>>
    /\ piece_gap_corner_objects = <<>>
    /\ piece_objects = <<>>

MainIdle ==
    /\ puzzle_grid = <<>>
    /\ lower_frame_grid = <<>>
    /\ best_lower_piece_for_upper_piece = <<>>
    /\ all_objects = <<>>

\* makeGrid called on one field file.
Init ==
    /\ pc = "makeGrid"
    /\ field_file = "field.json"
    /\ MakeGridEntry
    /\ MainIdle
    /\ EditorIdle

MakeGridSteps ==
    \/ Floodfill
    \/ Bordering
    \/ Coloring
    \/ TileObjects
    \/ GapObjects
    \/ GapCornerObjects
    \/ PieceObjects

NextAnyFile ==
    \/ LoadGrid(AnyGrids)
    \/ MakeGridSteps

\* makeGrid on a field file of any shape.
SpecAnyFile == Init /\ [][NextAnyFile]_vars

\* The editor window as GridWindow.__init__ leaves it (lines 62-68, 140-166):
\* every gap active, no button disabled, no field.json written yet.
InitEditor ==
    /\ pc = "editor"
    /\ field_file = "field.json"
    /\ MakeGridEntry
    /\ MainIdle
    /\ gaps_horiz = [k \in HorizKeys |-> TRUE]
    /\ gaps_vert = [k \in VertKeys |-> TRUE]
    /\ buttons_disabled = {}
    /\ input_state = Gap("v", 0, 0)
    /\ save_file = [exists |-> FALSE, horiz |-> <<>>, vert |-> <<>>]
    /\ at_save = [taken |-> FALSE, horiz |-> <<>>, vert |-> <<>>]
    /\ last_handler = "none"

NextEditor ==
    \/ OnGapClick
    \/ OnKeypress
    \/ OnSaveClick
    \/ OnLoadClick

SpecEditor == InitEditor /\ [][NextEditor]_vars

NextOpenBoundary ==
    \/ LoadGrid(OpenBoundaryGrids)
    \/ MakeGridSteps

\* makeGrid on a well-formed field file with open boundary gaps.
SpecOpenBoundary == Init /\ [][NextOpenBoundary]_vars

InitMain ==
    /\ pc = "main"
    /\ field_file = "none"
    /\ MakeGridEntry
    /\ MainIdle
    /\ EditorIdle

NextMain ==
    \/ MainCallUpper
    \/ LoadGrid(MainGrids)
    \/ MakeGridSteps
    \/ MainUpperReturned
    \/ MainLowerReturned
    \/ MainMatch
    \/ MainCompose
    \/ MainRender

\* main: makeGrid on the puzzle field, then on the lower frame field, matching
\* and composition.
SpecMain == InitMain /\ [][NextMain]_vars

(***************************************************************************)
(* Vocabulary of the properties                                            *)
(***************************************************************************)
\* The flood fill has run to its end.
Decomposed ==
    pc \in {"bordering", "coloring", "tiles", "gaps", "corners", "assemble", "returned"}

Bordered == pc \in {"coloring", "tiles", "gaps", "corners", "assemble", "returned"}

Colored == pc \in {"tiles", "gaps", "corners", "assemble", "returned"}

GapsRendered == pc \in {"corners", "assemble", "returned"}

CornersRendered == pc \in {"assemble", "returned"}

TileBounds == (0..(NUM_TILES_X - 1)) \X (0..(NUM_TILES_Y - 1))

\* a and b are side by side or one above the other
GeometricallyAdjacent(a, b) ==
    \/ a[2] = b[2] /\ (a[1] - b[1] = 1 \/ b[1] - a[1] = 1)
    \/ a[1] = b[1] /\ (a[2] - b[2] = 1 \/ b[2] - a[2] = 1)

\* The stored boolean of the gap between two adjacent tiles: horiz[y][x] between
\* (x-1, y) and (x, y), vert[x][y] between (x, y-1) and (x, y).
GapBetween(a, b) ==
    IF a[2] = b[2]
    THEN Read(horiz, a[2], IF a[1] > b[1] THEN a[1] ELSE b[1])
    ELSE Read(vert, a[1], IF a[2] > b[2] THEN a[2] ELSE b[2])

\* The tiles a path of steps over false gaps leads to from the tiles of S.
RECURSIVE FalseGapPathsFrom(_)
FalseGapPathsFrom(S) ==
    LET T == S \cup {b \in TileBounds :
                       \E a \in S : GeometricallyAdjacent(a, b) /\ ~GapBetween(a, b)}
    IN  IF T = S THEN S ELSE FalseGapPathsFrom(T)

\* The tiles of piece piece_id, as a set.
TilesOf(piece_id) == Range(pieces[piece_id + 1])

\* How often the element e occurs in the list s.
Occurrences(s, e) == Cardinality({k \in 1..Len(s) : s[k] = e})

(***************************************************************************)
(* C1  Connectivity soundness.  Once the flood fill is done, two tiles     *)
(* inside the tile bounds have the same piece ID if and only if a path of  *)
(* geometrically adjacent tiles joins them whose every step crosses a gap  *)
(* stored as false.                                                        *)
(***************************************************************************)
C1_ConnectivitySoundness ==
    Decomposed =>
        \A a \in TileBounds : \A b \in TileBounds :
            (tile_to_piece_id_map[a] = tile_to_piece_id_map[b])
                <=> (b \in FalseGapPathsFrom({a}))

\* A piece holds two tiles that are not adjacent (the path has two steps at
\* least), and two adjacent tiles lie in different pieces.
C1_Witness ==
    /\ Decomposed
    /\ \E a \in TileBounds : \E b \in TileBounds :
          /\ a /= b
          /\ ~GeometricallyAdjacent(a, b)
          /\ tile_to_piece_id_map[a] = tile_to_piece_id_map[b]
    /\ \E a \in TileBounds : \E b \in TileBounds :
          /\ GeometricallyAdjacent(a, b)
          /\ tile_to_piece_id_map[a] /= tile_to_piece_id_map[b]

(***************************************************************************)
(* C2  Partition completeness.  Once the flood fill is done, the keys of   *)
(* tile_to_piece_id_map are exactly the tiles inside the bounds, each with *)
(* a piece ID of 0..len(pieces)-1; every tile is in the tile list of       *)
(* exactly one piece, and no piece is empty.                               *)
(***************************************************************************)
C2_PartitionCompleteness ==
    Decomposed =>
        /\ DOMAIN tile_to_piece_id_map = TileBounds
        /\ \A t \in TileBounds :
              /\ tile_to_piece_id_map[t] \in PieceIds
              /\ {p \in PieceIds : t \in TilesOf(p)} = {tile_to_piece_id_map[t]}
        /\ \A p \in PieceIds : pieces[p + 1] /= <<>>

\* Several pieces, one of them of several tiles.
C2_Witness ==
    /\ Decomposed
    /\ Len(pieces) >= 2
    /\ \E p \in PieceIds : Cardinality(TilesOf(p)) >= 2

(***************************************************************************)
(* C3  Colouring validity.  Once the colouring loop is done, every piece   *)
(* ID has a colour, and a piece never has the colour of a piece in its     *)
(* bordering_pieces_map entry.                                             *)
(***************************************************************************)
C3_ColoringValidity ==
    Colored =>
        /\ DOMAIN piece_color_map = PieceIds
        /\ \A A \in PieceIds : \A B \in bordering_pieces_map[A] :
              piece_color_map[A] /= piece_color_map[B]

\* Three pieces that border one another: three colours are needed.
C3_Witness ==
    /\ Colored
    /\ num_used_colors >= 3
    /\ \E A \in PieceIds : Cardinality(bordering_pieces_map[A]) >= 2

(***************************************************************************)
(* C4  The bordering graph is geometric adjacency between different        *)
(* pieces, whatever the gaps hold: B is in bordering_pieces_map[A] if and  *)
(* only if A /= B and a tile of A is a 4-neighbour of a tile of B.  The    *)
(* relation is symmetric and has no self-edges.                            *)
(***************************************************************************)
C4_BorderingIsGeometricAdjacency ==
    Bordered =>
        \A A \in PieceIds :
            /\ A \notin bordering_pieces_map[A]
            /\ \A B \in PieceIds :
                  /\ (B \in bordering_pieces_map[A]) <=>
                        /\ A /= B
                        /\ \E a \in TilesOf(A) : \E b \in TilesOf(B) :
                              GeometricallyAdjacent(a, b)
                  /\ (B \in bordering_pieces_map[A]) <=> (A \in bordering_pieces_map[B])

\* A piece that borders one piece and does not border another.
C4_Witness ==
    /\ Bordered
    /\ \E A \in PieceIds : \E B \in PieceIds : \E C \in PieceIds :
          /\ B \in bordering_pieces_map[A]
          /\ C /= A
          /\ C \notin bordering_pieces_map[A]

(***************************************************************************)
(* C5  A grid whose two arrays are dimensionally inconsistent (a row of    *)
(* another length than the first, or len(horiz[0]) - 1 /= len(vert), or    *)
(* len(vert[0]) - 1 /= len(horiz)) fails with a ValidationError when it is *)
(* loaded: no tile counts are derived and no decomposition, colouring or   *)
(* geometry follows.                                                       *)
(***************************************************************************)
Rectangular(arr) == \A i \in 1..Len(arr) : Len(arr[i]) = Len(arr[1])

\* Both arrays hold a first row, and the claim's three conditions are decided.
DimensionallyInconsistent ==
    /\ Len(horiz) > 0
    /\ Len(vert) > 0
    /\ \/ ~Rectangular(horiz)
       \/ ~Rectangular(vert)
       \/ Len(horiz[1]) - 1 /= Len(vert)
       \/ Len(vert[1]) - 1 /= Len(horiz)

C5_InconsistentGridRejected ==
    (pc /= "makeGrid" /\ DimensionallyInconsistent) =>
        /\ pc = "raised"
        /\ error = "ValidationError"
        /\ NUM_TILES_X = 0
        /\ NUM_TILES_Y = 0

(***************************************************************************)
(* C6  A grid with zero tiles (NUM_TILES_X = 0 or NUM_TILES_Y = 0) is      *)
(* rejected with a ValidationError when it is loaded, be it the upper      *)
(* puzzle grid or the lower frame grid of main; no makeGrid call enters    *)
(* geometry synthesis with an empty list of pieces, and frame matching     *)
(* never starts on a grid without pieces.                                  *)
(***************************************************************************)
\* A makeGrid call has derived tile counts, one of them zero.
ZeroTileGridLoaded ==
    /\ field_file \in {"upper", "lower"}
    /\ pc \notin {"main", "makeGrid"}
    /\ Len(horiz) > 0
    /\ Len(vert) > 0
    /\ (NUM_TILES_X = 0 \/ NUM_TILES_Y = 0)

C6_ZeroTileGridRejected ==
    /\ ZeroTileGridLoaded => (pc = "raised" /\ error = "ValidationError")
    /\ pc \in {"tiles", "gaps", "corners", "assemble"} => Len(pieces) > 0
    /\ pc = "match" =>
          /\ Len(puzzle_grid.piece_objects) > 0
          /\ Len(lower_frame_grid.piece_objects) > 0

(***************************************************************************)
(* C7  Editor round trip. After Save, any clicks and keypresses, and then *)
(* Load, every horizontal gap (lane 0..SIZE_Y-1, offset 0..SIZE_X) and     *)
(* every vertical gap (lane 0..SIZE_X-1, offset 0..SIZE_Y) holds the       *)
(* boolean it held when Save was pressed.                                  *)
(***************************************************************************)
C7_SaveLoadRoundTrip ==
    (last_handler = "load" /\ at_save.taken) =>
        /\ \A k \in HorizKeys : gaps_horiz[k] = at_save.horiz[k]
        /\ \A k \in VertKeys : gaps_vert[k] = at_save.vert[k]

(***************************************************************************)
(* C8  Geometry coverage of the all-open grid.  For a well-formed N x M    *)
(* grid (N, M >= 1) whose gaps are all open (true), makeGrid raises        *)
(* nothing and returns N*M pieces, each of one tile; the piece objects     *)
(* hold exactly one tile cuboid per tile, no bridging cuboid and no        *)
(* corner filler.                                                          *)
(***************************************************************************)
AllOpen(arr) == \A i \in 1..Len(arr) : \A j \in 1..Len(arr[i]) : arr[i][j]

AllOpenGridLoaded == pc /= "makeGrid" /\ AllOpen(horiz) /\ AllOpen(vert)

\* The tile cuboids of tile t in the returned piece objects, one entry per cuboid.
TileCuboidsAt(t) ==
    UNION {{<<i, k>> : k \in {j \in 1..Len(piece_objects[i].tiles) :
                                piece_objects[i].tiles[j].tile = t}} :
             i \in 1..Len(piece_objects)}

C8_AllOpenGeometry ==
    /\ AllOpenGridLoaded => error = "none"
    /\ (AllOpenGridLoaded /\ pc = "returned") =>
          /\ Len(pieces) = Len(vert) * Len(horiz)
          /\ Len(piece_objects) = Len(pieces)
          /\ \A i \in 1..Len(pieces) : Len(pieces[i]) = 1
          /\ \A t \in (0..(Len(vert) - 1)) \X (0..(Len(horiz) - 1)) :
                Cardinality(TileCuboidsAt(t)) = 1
          /\ \A i \in 1..Len(piece_objects) :
                /\ Len(piece_objects[i].tiles) = 1
                /\ piece_objects[i].gaps = <<>>
                /\ piece_objects[i].corners = <<>>

\* makeGrid has returned for an all-open grid of 2 x 2 tiles or more.
C8_Witness ==
    /\ pc = "returned"
    /\ AllOpen(horiz)
    /\ AllOpen(vert)
    /\ Len(horiz) >= 2
    /\ Len(vert) >= 2
    /\ Len(pieces) >= 4

(***************************************************************************)
(* C9  Corner fillers.  As claimed: when the corner pass is done, a corner *)
(* has a filler cube exactly when every gap meeting at it is open (true).  *)
(* As the code has it (C9_CornerFillerWhenAllClosed): when the corner pass *)
(* of a well-formed grid is done, a corner has exactly one filler cube if  *)
(* every gap meeting at it is closed (false), and none if one of them is   *)
(* open.                                                                   *)
(***************************************************************************)
\* The corners of a well-formed grid, from the sizes of the arrays.
Corners == (0..Len(vert)) \X (0..Len(horiz))

\* The stored booleans of the (up to four) gaps that meet at corner c: the
\* horizontal gaps of the lanes above and below at offset c[1], the vertical
\* gaps of the lanes left and right at offset c[2].
GapsMeetingAt(c) ==
    {Read(horiz, lane, c[1]) : lane \in {c[2] - 1, c[2]} \cap (0..(Len(horiz) - 1))}
      \cup {Read(vert, lane, c[2]) : lane \in {c[1] - 1, c[1]} \cap (0..(Len(vert) - 1))}

\* The filler cubes at corner c, over all pieces.
FillersAt(c) ==
    {<<p, k>> \in PieceIds \X (1..((Len(vert) + 1) * (Len(horiz) + 1))) :
        /\ k <= Len(piece_gap_corner_objects[p])
        /\ piece_gap_corner_objects[p][k].corner = c}

C9_CornerFillerWhenAllOpen ==
    CornersRendered =>
        \A c \in Corners : (FillersAt(c) /= {}) <=> (FALSE \notin GapsMeetingAt(c))

C9_CornerFillerWhenAllClosed ==
    CornersRendered =>
        \A c \in Corners :
            Cardinality(FillersAt(c)) = IF TRUE \notin GapsMeetingAt(c) THEN 1 ELSE 0

\* An inner corner with a filler (its four gaps closed), a corner without
\* (some gap open, another closed).
C9_Witness ==
    /\ CornersRendered
    /\ \E c \in Corners :
          /\ c[1] > 0 /\ c[1] < Len(vert) /\ c[2] > 0 /\ c[2] < Len(horiz)
          /\ GapsMeetingAt(c) = {FALSE}
          /\ Cardinality(FillersAt(c)) = 1
    /\ \E c \in Corners :
          /\ GapsMeetingAt(c) = {TRUE, FALSE}
          /\ FillersAt(c) = {}

(***************************************************************************)
(* C10  Bridge attribution.  For every well-formed grid, grids one tile    *)
(* wide or high included: the attribution lookup never addresses a tile    *)
(* outside the tile bounds (no KeyError), and when the gap pass is done    *)
(* every closed gap (false) has exactly one bridging cuboid, held by the   *)
(* piece of a tile that lies directly on one side of the gap.              *)
(***************************************************************************)
\* The gaps of a well-formed grid, from the sizes of the arrays.
GapPositions ==
    {[dir |-> "h", x |-> x, y |-> y] : <<x, y>> \in (0..Len(vert)) \X (0..(Len(horiz) - 1))}
      \cup {[dir |-> "v", x |-> x, y |-> y] :
              <<x, y>> \in (0..(Len(vert) - 1)) \X (0..Len(horiz))}

GapClosed(g) == IF g.dir = "h" THEN ~Read(horiz, g.y, g.x) ELSE ~Read(vert, g.x, g.y)

\* The tiles directly on the two sides of gap g (one of them at a boundary).
TilesBeside(g) ==
    (IF g.dir = "h" THEN {<<g.x - 1, g.y>>, <<g.x, g.y>>}
                    ELSE {<<g.x, g.y - 1>>, <<g.x, g.y>>})
      \cap ((0..(Len(vert) - 1)) \X (0..(Len(horiz) - 1)))

\* The pieces holding a bridging cuboid of gap g, one entry per cuboid.
BridgesOf(g) ==
    {<<p, k>> \in PieceIds \X (1..Cardinality(GapPositions)) :
        /\ k <= Len(piece_gap_objects[p])
        /\ piece_gap_objects[p][k] = g}

C10_BridgeAttribution ==
    /\ error /= "KeyError"
    /\ GapsRendered =>
          \A g \in GapPositions :
              /\ Cardinality(BridgesOf(g)) = IF GapClosed(g) THEN 1 ELSE 0
              /\ \A b \in BridgesOf(g) :
                    \E t \in TilesBeside(g) : tile_to_piece_id_map[t] = b[1]

(***************************************************************************)
(* C11  One cuboid per tile.  For every well-formed grid, once the flood   *)
(* fill is done the tile list of each piece holds each of the piece's      *)
(* tiles exactly once, and once the tile pass is done the tile cuboids of  *)
(* all pieces number NUM_TILES_X * NUM_TILES_Y.                            *)
(***************************************************************************)
TilesRendered == pc \in {"gaps", "corners", "assemble", "returned"}

\* The tile cuboids of all pieces, one entry per cuboid.
TileCuboids ==
    UNION {{<<i, k>> : k \in 1..Len(piece_tile_objects[i])} :
             i \in 1..Len(piece_tile_objects)}

C11_OneCuboidPerTile ==
    /\ Decomposed =>
          \A i \in 1..Len(pieces) : \A t \in Range(pieces[i]) :
              Occurrences(pieces[i], t) = 1
    /\ TilesRendered => Cardinality(TileCuboids) = NUM_TILES_X * NUM_TILES_Y

(***************************************************************************)
(* C12  Frame matching picks the maximal overlap.  When matching is done,  *)
(* for each upper piece U with a border tile, the lower piece chosen for U *)
(* has the greatest number of distinct border tiles of U among its own     *)
(* tiles (each border tile counted once, corner tiles too), and of the     *)
(* lower pieces with that number it is the one met first on U's border     *)
(* tiles.                                                                  *)
(***************************************************************************)
Matched == pc \in {"compose", "render", "done"}

\* The tiles on the four border rows and columns of the upper grid.
BorderTiles ==
    {t \in (0..(puzzle_grid.num_tiles_x - 1)) \X (0..(puzzle_grid.num_tiles_y - 1)) :
        \/ t[1] = 0
        \/ t[1] = puzzle_grid.num_tiles_x - 1
        \/ t[2] = 0
        \/ t[2] = puzzle_grid.num_tiles_y - 1}

BorderTilesOf(U) == {t \in BorderTiles : puzzle_grid.tile_to_piece_id_map[t] = U}

UpperBorderPieces == {puzzle_grid.tile_to_piece_id_map[t] : t \in BorderTiles}

LowerPieceIds == 0..(Len(lower_frame_grid.piece_objects) - 1)

\* The border tiles of upper piece U that lie in lower piece L.
Overlap(U, L) ==
    {t \in BorderTilesOf(U) :
        /\ t \in DOMAIN lower_frame_grid.tile_to_piece_id_map
        /\ lower_frame_grid.tile_to_piece_id_map[t] = L}

\* The place in the enumeration of the border tiles where a tile of Overlap(U, L)
\* comes first.
FirstMet(U, L) ==
    LET tiles == outermost_tiles(puzzle_grid.num_tiles_x, puzzle_grid.num_tiles_y)
    IN  SetMin({k \in 1..Len(tiles) : tiles[k] \in Overlap(U, L)})

C12_MaximalOverlap ==
    Matched =>
        \A U \in UpperBorderPieces :
            /\ DictHas(best_lower_piece_for_upper_piece, U)
            /\ LET chosen == best_lower_piece_for_upper_piece.val[U]
               IN  /\ chosen \in LowerPieceIds
                   /\ Overlap(U, chosen) /= {}
                   /\ \A L \in LowerPieceIds :
                         /\ Cardinality(Overlap(U, L)) <= Cardinality(Overlap(U, chosen))
                         /\ (L /= chosen
                               /\ Cardinality(Overlap(U, L)) = Cardinality(Overlap(U, chosen)))
                              => FirstMet(U, chosen) < FirstMet(U, L)

(***************************************************************************)
(* C13  Unmatched frame piece.  If some upper piece with a border tile has *)
(* no border tile that is a key of the lower grid's tile map, main ends at *)
(* the matching step with an error: that upper piece is given no lower     *)
(* piece, nothing is composed and puzzle.scad is not written.              *)
(***************************************************************************)
\* Both grids are returned and the matching step is over.
MatchingOver == lower_frame_grid /= <<>> /\ pc /= "match"

UnmatchedUpperPieces ==
    {U \in UpperBorderPieces :
        \A t \in BorderTilesOf(U) : t \notin DOMAIN lower_frame_grid.tile_to_piece_id_map}

C13_UnmatchedFramePieceAborts ==
    (MatchingOver /\ UnmatchedUpperPieces /= {}) =>
        /\ pc = "raised"
        /\ error /= "none"
        /\ \A U \in UnmatchedUpperPieces : ~DictHas(best_lower_piece_for_upper_piece, U)
        /\ all_objects = <<>>

\* main has ended at the matching step: one upper piece found its lower piece,
\* a later one has no border tile in the lower grid.
C13_Witness ==
    /\ MatchingOver
    /\ pc = "raised"
    /\ error = "ValueError"
    /\ UnmatchedUpperPieces /= {}
    /\ Len(best_lower_piece_for_upper_piece.keys) >= 1
    /\ Len(lower_frame_grid.piece_objects) >= 1

(***************************************************************************)
(* C14  Each piece is assembled exactly once.  When all_objects is built,  *)
(* every upper piece is part of exactly one solid, a joint solid if the    *)
(* piece has a border tile and a solid of its own otherwise, and every     *)
(* lower piece is part of exactly one solid: no lower piece is fused into  *)
(* two joint solids.                                                       *)
(***************************************************************************)
Composed == pc \in {"render", "done"}

UpperPieceIds == 0..(Len(puzzle_grid.piece_objects) - 1)

\* The solids of all_objects that hold upper piece U / lower piece L.
SolidsWithUpper(U) == {k \in 1..Len(all_objects) : all_objects[k].upper = U}

SolidsWithLower(L) == {k \in 1..Len(all_objects) : all_objects[k].lower = L}

C14_EachPieceAssembledOnce ==
    Composed =>
        /\ \A U \in UpperPieceIds :
              /\ Cardinality(SolidsWithUpper(U)) = 1
              /\ \A k \in SolidsWithUpper(U) :
                    (all_objects[k].lower /= None) <=> (U \in UpperBorderPieces)
        /\ \A L \in LowerPieceIds : Cardinality(SolidsWithLower(L)) = 1

(***************************************************************************)
(* C15  Greedy first-fit colouring in piece-ID order.  When the colouring  *)
(* loop is done, every piece i has the smallest non-negative integer that  *)
(* is not the colour of a bordering piece with a smaller ID; piece 0 has   *)
(* colour 0; a piece whose colour is greater than all colours before it    *)
(* has every one of those colours among its earlier neighbours; and the    *)
(* colours in use are exactly 0..num_used_colors-1.                        *)
(***************************************************************************)
\* The colours of the bordering pieces coloured before piece i.
EarlierBorderingColors(i) ==
    {piece_color_map[b] : b \in {c \in bordering_pieces_map[i] : c < i}}

SmallestNotIn(S) == SetMin((0..Cardinality(S)) \ S)

C15_GreedyFirstFit ==
    Colored =>
        /\ \A i \in PieceIds :
              piece_color_map[i] = SmallestNotIn(EarlierBorderingColors(i))
        /\ Len(pieces) > 0 => piece_color_map[0] = 0
        /\ \A i \in PieceIds :
              (\A j \in 0..(i - 1) : piece_color_map[j] < piece_color_map[i])
                 => {piece_color_map[j] : j \in 0..(i - 1)} \subseteq EarlierBorderingColors(i)
        /\ {piece_color_map[i] : i \in PieceIds} = 0..(num_used_colors - 1)

\* Three colours are in use and a piece whose earlier neighbours hold colour 2
\* alone took colour 0, the smaller of the two free ones.
C15_Witness ==
    /\ Colored
    /\ num_used_colors >= 3
    /\ \E i \in PieceIds :
          /\ EarlierBorderingColors(i) = {2}
          /\ piece_color_map[i] = 0

Next ==
    \/ LoadGrid(WellFormedGrids)
    \/ MakeGridSteps

Spec == Init /\ [][Next]_vars

====
